---- MODULE Spec2Model ----
(***************************************************************************)
(* Model of src/App.jsx: the submit handler handleGenerateContent of the   *)
(* App component, its inline retry helper fetchWithBackoff, and the        *)
(* normalisation of the response payload into the display state            *)
(* (response, error, isLoading).                                           *)
(*                                                                         *)
(* Every await of the handler is a suspension point and therefore a        *)
(* separate step of the model; the synchronous code between two awaits is  *)
(* one atomic action.                                                      *)
(*                                                                         *)
(* JavaScript values are modelled as follows.                              *)
(*   - An optional value (undefined / null / absent field) is a sequence   *)
(*     of length 0 (None) or 1 (Some(x)).                                  *)
(*   - A query is a sequence of one-character strings, so that trim() is   *)
(*     computed and not assumed.                                           *)
(*   - Error messages and generated texts are strings.                     *)
(*   - A response body is a record: json says whether the body text is     *)
(*     not JSON at all ("invalid"), the JSON literal null ("null"), or a   *)
(*     JSON object ("object") with the optional fields error and           *)
(*     candidates.  A candidate is [parts, grounding]: parts is the list   *)
(*     content.parts given by the optional text of each part (an absent    *)
(*     content or parts is the empty list, which the optional chaining of  *)
(*     line 106 treats alike), grounding is the optional list              *)
(*     groundingMetadata.groundingAttributions, each attribution given by  *)
(*     the optional web.uri and web.title.                                 *)
(***************************************************************************)
EXTENDS Integers, Sequences, FiniteSets, TLC

VARIABLES
    query,      \* useState: the text of the textarea (line 53)
    response,   \* useState: None or Some([text, sources]) (line 54)
    isLoading,  \* useState (line 55)
    error,      \* useState: None or Some(message) (line 56)
    pc,         \* where the running handler is suspended; "idle" when none runs
    i,          \* loop counter of fetchWithBackoff (line 74)
    delay,      \* the delay parameter of fetchWithBackoff (line 73)
    payload,    \* payload.contents[0].parts[0].text of the running handler
    resp,       \* the local `response` of fetchWithBackoff: None or Some([status, body])
    calls,      \* history: the payload text of every fetch call of the latest dispatch
    outcomes,   \* history: how every settled fetch call of the latest dispatch ended
    waits,      \* history: every backoff timer the latest dispatch has set
    lastEvent,  \* history: the name of the latest step
    attached,       \* copyToClipboard: the temporary textareas attached to document.body
    copyThrew,      \* copyToClipboard: its latest call threw to its caller
    notice,         \* copyToClipboard: None or Some(text of the latest alert)
    clipboard,      \* copyToClipboard: None or Some(text on the clipboard)
    pendingWrites   \* copyToClipboard: the texts of the pending clipboard.writeText promises

appVars == <<query, response, isLoading, error, pc, i, delay, payload, resp,
             calls, outcomes, waits, lastEvent>>

copyVars == <<attached, copyThrew, notice, clipboard, pendingWrites>>

vars == <<query, response, isLoading, error, pc, i, delay, payload, resp,
          calls, outcomes, waits, lastEvent,
          attached, copyThrew, notice, clipboard, pendingWrites>>

display == <<response, error, isLoading>>

-----------------------------------------------------------------------------
(* Bounds of the model *)

MaxQueryLen == 2

MaxAttached == 2

MaxPendingWrites == 2

-----------------------------------------------------------------------------
(* Optional values *)

None == <<>>

Some(x) == <<x>>

Has(o) == o # <<>>

Get(o) == o[1]

-----------------------------------------------------------------------------
(* Queries and String.prototype.trim *)

Space == " "

QueryChars == {Space, "a"}

Queries == UNION {[1..n -> QueryChars] : n \in 0..MaxQueryLen}

RECURSIVE TrimStart(_)
TrimStart(q) ==
    IF q # <<>> /\ Head(q) = Space THEN TrimStart(Tail(q)) ELSE q

RECURSIVE TrimEnd(_)
TrimEnd(q) ==
    IF q # <<>> /\ q[Len(q)] = Space THEN TrimEnd(SubSeq(q, 1, Len(q) - 1)) ELSE q

Trim(q) == TrimEnd(TrimStart(q))

IsBlankNoTrim(q) == q = <<>>

\* line 60: !query.trim()
IsBlank(q) == Trim(q) = <<>>

\* line 67: parts: [{ text: query }]
PayloadText(q) == q

-----------------------------------------------------------------------------
(* What the transport can answer *)

Statuses == {200, 201, 403, 429, 500}

\* Response.ok: the status is in the range 200-299
ResponseOk(status) == status >= 200 /\ status <= 299

ServerMessages == {"", "permission denied"}

\* the optional field error of a response body: { error?: { message?: string } }
ErrorFields ==
    {None} \cup {Some([message |-> m]) : m \in {None} \cup {Some(s) : s \in ServerMessages}}

Attribution(uri, title) == [uri |-> uri, title |-> title]

AttrFull == Attribution(Some("https://a.example"), Some("A"))

AttrOther == Attribution(Some("https://b.example"), Some("B"))

AttrNoTitle == Attribution(Some("https://c.example"), None)

AttrNoUri == Attribution(None, Some("D"))

AttrEmptyTitle == Attribution(Some("https://e.example"), Some(""))

Candidate(parts, grounding) == [parts |-> parts, grounding |-> grounding]

CandHello == Candidate(<<Some("Hello")>>, None)

CandGrounded ==
    Candidate(<<Some(" Hello\n  world \n")>>,
              Some(<<AttrOther, AttrNoTitle, AttrFull, AttrNoUri, AttrOther, AttrEmptyTitle, AttrFull>>))

CandOneIncomplete == Candidate(<<Some("Hello")>>, Some(<<AttrNoTitle>>))

CandNoAttributions == Candidate(<<Some("Hello")>>, Some(<<>>))

CandLateText == Candidate(<<None, Some("late")>>, Some(<<AttrFull>>))

CandEmptyText == Candidate(<<Some("")>>, None)

CandNoParts == Candidate(<<>>, None)

CandWhitespace == Candidate(<<Some(" \n ")>>, None)

\* the optional field candidates of a response body
CandidateLists ==
    { None,
      Some(<<>>),
      Some(<<CandHello>>),
      Some(<<CandGrounded, CandHello>>),
      Some(<<CandOneIncomplete>>),
      Some(<<CandNoAttributions>>),
      Some(<<CandLateText, CandHello>>),
      Some(<<CandEmptyText, CandHello>>),
      Some(<<CandNoParts>>),
      Some(<<CandWhitespace>>) }

InvalidBody == [json |-> "invalid", error |-> None, candidates |-> None]

NullBody == [json |-> "null", error |-> None, candidates |-> None]

ObjectBody(err, candidates) == [json |-> "object", error |-> err, candidates |-> candidates]

\* the JSON objects the transport answers with: error bodies, payloads, and
\* one object that carries both fields
ObjectBodies ==
    {ObjectBody(e, None) : e \in ErrorFields}
        \cup {ObjectBody(None, c) : c \in CandidateLists}
        \cup {ObjectBody(Some([message |-> Some("permission denied")]), Some(<<CandHello>>))}

Bodies == {InvalidBody, NullBody} \cup ObjectBodies

-----------------------------------------------------------------------------
(* Messages of the errors that the handler can see *)

\* fetch() rejects with a TypeError
TransportMessage == "Failed to fetch"

\* Response.json() rejects with a SyntaxError when the body is not JSON
SyntaxMessage == "Unexpected token < in JSON at position 0"

\* reading a property of the JSON value null throws a TypeError
NullMessage == "Cannot read properties of null"

\* calling .json() on the undefined that a finished loop returns
UndefinedMessage == "Cannot read properties of undefined (reading 'json')"

\* line 85: `API request failed with status: ${response.status}`
StatusMessage(status) == "API request failed with status: " \o ToString(status)

\* line 129: `An error occurred: ${err.message}`
FailureText(message) == "An error occurred: " \o message

\* line 124
NoContentText ==
    "The model did not return a valid response. This might be due to safety filters or an internal error."

\* The result of an operation that may throw: a value or the thrown message.
Returns(v) == [ok |-> TRUE, val |-> Some(v), message |-> ""]

Throws(m) == [ok |-> FALSE, val |-> None, message |-> m]

\* a JavaScript string is truthy iff it is present and not empty
Truthy(o) == Has(o) /\ Get(o) # ""

ParseJsonLenient(body) ==
    IF body.json = "invalid"
    THEN Returns([json |-> "object", error |-> None, candidates |-> None])
    ELSE Returns(body)

\* Response.json(), lines 84 and 102
ParseJson(body) ==
    IF body.json = "invalid" THEN Throws(SyntaxMessage) ELSE Returns(body)

NotOkMessageStatusOnly(status, body) == StatusMessage(status)

\* lines 84-85: the message of the error thrown for a response that is not ok
\* (errorData.error?.message || `API request failed with status: ...`)
NotOkMessage(status, body) ==
    LET parsed == ParseJson(body) IN
    IF ~parsed.ok THEN parsed.message
    ELSE LET errorData == Get(parsed.val) IN
         IF errorData.json = "null" THEN NullMessage
         ELSE IF Has(errorData.error) /\ Truthy(Get(errorData.error).message)
              THEN Get(Get(errorData.error).message)
              ELSE StatusMessage(status)

-----------------------------------------------------------------------------
(* Normalisation of the parsed payload, lines 104-125 *)

\* line 118: source.uri && source.title
Complete(a) == Truthy(a.uri) /\ Truthy(a.title)

RECURSIVE FilterComplete(_)
FilterComplete(attrs) ==
    IF attrs = <<>> THEN <<>>
    ELSE IF Complete(Head(attrs))
         THEN <<[uri |-> Get(Head(attrs).uri), title |-> Get(Head(attrs).title)]>>
                 \o FilterComplete(Tail(attrs))
         ELSE FilterComplete(Tail(attrs))

SourcesTopThree(candidate) ==
    LET all == IF Has(candidate.grounding)
               THEN FilterComplete(Get(candidate.grounding)) ELSE <<>>
    IN  SubSeq(all, 1, IF Len(all) < 3 THEN Len(all) ELSE 3)

\* lines 110-119
Sources(candidate) ==
    IF Has(candidate.grounding) THEN FilterComplete(Get(candidate.grounding)) ELSE <<>>

RECURSIVE FirstWithText(_)
FirstWithText(candidates) ==
    IF candidates = <<>> THEN None
    ELSE IF Head(candidates).parts # <<>> /\ Truthy(Head(Head(candidates).parts))
         THEN Some(Head(candidates))
         ELSE FirstWithText(Tail(candidates))

FirstCandidateWithText(result) ==
    IF Has(result.candidates) THEN FirstWithText(Get(result.candidates)) ELSE None

\* line 104: result.candidates?.[0]
FirstCandidate(result) ==
    IF Has(result.candidates) /\ Len(Get(result.candidates)) > 0
    THEN Some(Get(result.candidates)[1])
    ELSE None

\* line 106: candidate.content?.parts?.[0]?.text
FirstText(candidate) ==
    IF Len(candidate.parts) > 0 THEN candidate.parts[1] ELSE None

GeneratedTextTrimmed(candidate) ==
    LET text == candidate.parts[1][1] IN
    CASE text = " Hello\n  world \n" -> "Hello\n  world"
      [] text = " \n " -> ""
      [] OTHER -> text

\* line 107: const generatedText = candidate.content.parts[0].text
GeneratedText(candidate) == candidate.parts[1][1]

Shown(r, e) == [response |-> r, error |-> e]

NormalizeNoElse(result) ==
    LET candidate == FirstCandidate(result) IN
    IF Has(candidate) /\ Truthy(FirstText(Get(candidate)))
    THEN Returns(Shown(Some([text    |-> GeneratedText(Get(candidate)),
                             sources |-> Sources(Get(candidate))]), None))
    ELSE Returns(Shown(None, None))

NormalizeNoContentThrows(result) ==
    LET candidate == FirstCandidate(result) IN
    IF Has(candidate) /\ Truthy(FirstText(Get(candidate)))
    THEN Returns(Shown(Some([text    |-> GeneratedText(Get(candidate)),
                             sources |-> Sources(Get(candidate))]), None))
    ELSE Throws(NoContentText)

\* lines 104-125: what the handler writes to response and error for a parsed
\* payload, or the TypeError that reading result.candidates of null throws
Normalize(result) ==
    IF result.json = "null" THEN Throws(NullMessage)
    ELSE LET candidate == FirstCandidate(result) IN
         IF Has(candidate) /\ Truthy(FirstText(Get(candidate)))
         THEN Returns(Shown(Some([text    |-> GeneratedText(Get(candidate)),
                                  sources |-> Sources(Get(candidate))]), None))
         ELSE Returns(Shown(None, Some(NoContentText)))

-----------------------------------------------------------------------------
(* The retry policy of fetchWithBackoff, lines 73-94 *)

RetriesTwo == 3 - 1

RetriesFour == 3 + 1

\* line 73: retries = 3
Retries == 3

\* line 73: delay = 1000
InitialDelay == 1000

\* line 77: response.status === 429 && i < retries - 1
ShouldRetry429(status, n) == status = 429 /\ n < Retries - 1

IsLastAttemptEarly(n) == n >= Retries - 2

\* line 89: i === retries - 1
IsLastAttempt(n) == n = Retries - 1

NextDelayConstant(d) == d

\* lines 80 and 91: delay *= 2
NextDelay(d) == d * 2

ControlsNeverDisabled == FALSE

\* lines 155 and 164: the textarea and the submit button are disabled while
\* isLoading.  The other half of the button's disabled expression,
\* !query.trim(), is not relied on: a submit event that does not come from the
\* button reaches the handler with any query, and the handler checks it itself
\* (line 60).
ControlsDisabled == isLoading

-----------------------------------------------------------------------------
(* The state machine *)

Init ==
    /\ query = <<>>
    /\ response = None
    /\ isLoading = FALSE
    /\ error = None
    /\ pc = "idle"
    /\ i = 0
    /\ delay = InitialDelay
    /\ payload = <<>>
    /\ resp = None
    /\ calls = <<>>
    /\ outcomes = <<>>
    /\ waits = <<>>
    /\ lastEvent = "init"
    /\ attached = 0
    /\ copyThrew = FALSE
    /\ notice = None
    /\ clipboard = None
    /\ pendingWrites = <<>>

\* line 154: onChange={(e) => setQuery(e.target.value)}
SetQuery(q) ==
    /\ UNCHANGED copyVars
    /\ ~ControlsDisabled
    /\ q # query
    /\ query' = q
    /\ lastEvent' = "setQuery"
    /\ UNCHANGED <<response, isLoading, error, pc, i, delay, payload, resp,
                   calls, outcomes, waits>>

HandleGenerateContentKeepsResponse ==
    /\ UNCHANGED copyVars
    /\ ~ControlsDisabled
    /\ lastEvent' = "submit"
    /\ IF IsBlank(query)
       THEN UNCHANGED <<query, response, isLoading, error, pc, i, delay, payload,
                        resp, calls, outcomes, waits>>
       ELSE /\ isLoading' = TRUE
            /\ error' = None
            /\ payload' = PayloadText(query)
            /\ i' = 0
            /\ delay' = InitialDelay
            /\ resp' = None
            /\ calls' = <<PayloadText(query)>>
            /\ outcomes' = <<>>
            /\ waits' = <<>>
            /\ pc' = "fetch"
            /\ UNCHANGED <<query, response>>

\* lines 58-76: the handler from the submit event to its first await, the
\* first fetch call of fetchWithBackoff
HandleGenerateContent ==
    /\ UNCHANGED copyVars
    /\ ~ControlsDisabled
    /\ lastEvent' = "submit"
    /\ IF IsBlank(query)
       THEN UNCHANGED <<query, response, isLoading, error, pc, i, delay, payload,
                        resp, calls, outcomes, waits>>
       ELSE /\ isLoading' = TRUE
            /\ error' = None
            /\ response' = None
            /\ payload' = PayloadText(query)
            /\ i' = 0
            /\ delay' = InitialDelay
            /\ resp' = None
            /\ calls' = <<PayloadText(query)>>
            /\ outcomes' = <<>>
            /\ waits' = <<>>
            /\ pc' = "fetch"
            /\ UNCHANGED query

FailNoFinally(message) ==
    /\ error' = Some(FailureText(message))
    /\ pc' = "idle"
    /\ UNCHANGED <<response, isLoading>>

\* lines 127-132: the catch and finally blocks of the handler
Fail(message) ==
    /\ error' = Some(FailureText(message))
    /\ isLoading' = FALSE
    /\ pc' = "idle"
    /\ UNCHANGED response

\* lines 79 and 90: await new Promise(resolve => setTimeout(resolve, delay))
SetTimer(cause, label) ==
    /\ waits' = Append(waits, [after |-> Len(calls), ms |-> delay, cause |-> cause])
    /\ pc' = label
    /\ UNCHANGED <<response, isLoading, error>>

\* lines 88-92: the catch block inside the loop
InnerCatch(message) ==
    IF IsLastAttempt(i)
    THEN Fail(message) /\ UNCHANGED waits
    ELSE SetTimer("error", "backoffCatch")

\* lines 76-87: the fetch call of attempt i resolves with a response
FetchResolves(status, body) ==
    /\ UNCHANGED copyVars
    /\ pc = "fetch"
    /\ lastEvent' = "fetchResolves"
    /\ resp' = Some([status |-> status, body |-> body])
    /\ outcomes' = Append(outcomes, [rejected |-> FALSE, status |-> status])
    /\ IF ShouldRetry429(status, i)
       THEN SetTimer("429", "backoff429")
       ELSE /\ pc' = IF ResponseOk(status) THEN "resultJson" ELSE "errorJson"
            /\ UNCHANGED <<response, isLoading, error, waits>>
    /\ UNCHANGED <<query, i, delay, payload, calls>>

\* lines 76 and 88-92: the fetch call of attempt i rejects
FetchRejects ==
    /\ UNCHANGED copyVars
    /\ pc = "fetch"
    /\ lastEvent' = "fetchRejects"
    /\ resp' = None
    /\ outcomes' = Append(outcomes, [rejected |-> TRUE, status |-> 0])
    /\ InnerCatch(TransportMessage)
    /\ UNCHANGED <<query, i, delay, payload, calls>>

\* lines 84-85 and 88-92: response.json() of a response that is not ok settles,
\* the error is thrown and caught by the catch block of the loop
ErrorJsonSettles ==
    /\ UNCHANGED copyVars
    /\ pc = "errorJson"
    /\ lastEvent' = "errorJsonSettles"
    /\ InnerCatch(NotOkMessage(Get(resp).status, Get(resp).body))
    /\ UNCHANGED <<query, i, delay, payload, resp, calls, outcomes>>

\* lines 79-81 and 90-93: the backoff timer fires, the delay doubles and the
\* loop goes to its next iteration; a loop that ends returns undefined, and
\* line 102 then throws
TimerFires ==
    /\ UNCHANGED copyVars
    /\ pc \in {"backoff429", "backoffCatch"}
    /\ lastEvent' = "timerFires"
    /\ delay' = NextDelay(delay)
    /\ i' = i + 1
    /\ IF i + 1 < Retries
       THEN /\ calls' = Append(calls, payload)
            /\ pc' = "fetch"
            /\ UNCHANGED <<response, isLoading, error>>
       ELSE Fail(UndefinedMessage) /\ UNCHANGED calls
    /\ UNCHANGED <<query, payload, resp, outcomes, waits>>

\* lines 87 and 96-132: fetchWithBackoff returns the response, its body is
\* parsed and normalised, and the outcome is written to the display state
ResultJsonSettles ==
    /\ UNCHANGED copyVars
    /\ pc = "resultJson"
    /\ lastEvent' = "resultJsonSettles"
    /\ LET parsed == ParseJson(Get(resp).body) IN
       IF ~parsed.ok
       THEN Fail(parsed.message)
       ELSE LET shown == Normalize(Get(parsed.val)) IN
            IF ~shown.ok
            THEN Fail(shown.message)
            ELSE /\ response' = Get(shown.val).response
                 /\ error' = Get(shown.val).error
                 /\ isLoading' = FALSE
                 /\ pc' = "idle"
    /\ UNCHANGED <<query, i, delay, payload, resp, calls, outcomes, waits>>

Next ==
    \/ \E q \in Queries : SetQuery(q)
    \/ HandleGenerateContent
    \/ \E status \in Statuses, body \in Bodies : FetchResolves(status, body)
    \/ FetchRejects
    \/ ErrorJsonSettles
    \/ TimerFires
    \/ ResultJsonSettles

Spec == Init /\ [][Next]_vars

\* line 76: the fetch call of the current attempt settles, either way
FetchSettles ==
    \/ \E status \in Statuses, body \in Bodies : FetchResolves(status, body)
    \/ FetchRejects

\* The component once the user has typed a query that is not blank.
FairInit ==
    /\ Init!2 /\ Init!3 /\ Init!4 /\ Init!5 /\ Init!6 /\ Init!7 /\ Init!8
    /\ Init!9 /\ Init!10 /\ Init!11 /\ Init!12 /\ Init!13 /\ Init!14
    /\ Init!15 /\ Init!16 /\ Init!17 /\ Init!18
    /\ query \in {<<"a">>, <<Space, "a">>}

\* The submissions of that query and the steps of their dispatches; the query
\* is not edited, which no step of a dispatch depends on.
FairNext ==
    \/ HandleGenerateContent
    \/ FetchSettles
    \/ ErrorJsonSettles
    \/ TimerFires
    \/ ResultJsonSettles

\* The platform settles every pending promise and fires every timer: the fetch
\* of line 76, the timers of lines 79 and 90 and the json() of lines 84 and 102.
FairSpec ==
    /\ FairInit
    /\ [][FairNext]_vars
    /\ WF_vars(FetchSettles)
    /\ WF_vars(TimerFires)
    /\ WF_vars(ErrorJsonSettles)
    /\ WF_vars(ResultJsonSettles)

-----------------------------------------------------------------------------
(* copyToClipboard, lines 21-47, called by the Copy button of line 193 *)

\* lines 33 and 41
CopiedNotice == "Response copied to clipboard!"

\* line 36
FallbackFailedNotice == "Failed to copy. Please copy the text manually."

\* line 44
ApiFailedNotice == "Failed to copy using clipboard API. Please copy the text manually."

\* lines 29-36: the platform calls of the fallback path that may raise
FallbackCalls == {"focus", "select", "execCommand", "alertCopied", "alertFailed"}

\* lines 22-38: navigator.clipboard is missing; raises is the set of platform
\* calls that raise when this call reaches them.  focus() and select() run
\* before the try block, removeChild after it and outside any finally.
CopyFallback(raises) ==
    /\ Has(response)
    /\ attached < MaxAttached
    /\ LET text == Get(response).text
           escapedBeforeTry == "focus" \in raises \/ "select" \in raises
           copied == ~escapedBeforeTry /\ "execCommand" \notin raises
           caught == /\ ~escapedBeforeTry
                     /\ ("execCommand" \in raises \/ "alertCopied" \in raises)
           escapedCatch == caught /\ "alertFailed" \in raises
           threw == escapedBeforeTry \/ escapedCatch
       IN  /\ copyThrew' = threw
           /\ attached' = IF threw THEN attached + 1 ELSE attached
           /\ clipboard' = IF copied THEN Some(text) ELSE clipboard
           /\ notice' = IF threw THEN notice
                         ELSE IF caught THEN Some(FallbackFailedNotice)
                         ELSE Some(CopiedNotice)
    /\ UNCHANGED <<appVars, pendingWrites>>

\* lines 39-40: navigator.clipboard exists; writeText returns a pending promise
CopyWithApi ==
    /\ Has(response)
    /\ Len(pendingWrites) < MaxPendingWrites
    /\ pendingWrites' = Append(pendingWrites, Get(response).text)
    /\ copyThrew' = FALSE
    /\ UNCHANGED <<appVars, attached, notice, clipboard>>

\* lines 40-45: a pending writeText promise fulfils or rejects
WriteTextSettles(k, fulfilled) ==
    /\ k \in 1..Len(pendingWrites)
    /\ pendingWrites' = [j \in 1..(Len(pendingWrites) - 1) |->
                             IF j < k THEN pendingWrites[j] ELSE pendingWrites[j + 1]]
    /\ clipboard' = IF fulfilled THEN Some(pendingWrites[k]) ELSE clipboard
    /\ notice' = IF fulfilled THEN Some(CopiedNotice) ELSE Some(ApiFailedNotice)
    /\ UNCHANGED <<appVars, attached, copyThrew>>

\* the Success results that the normaliser can put on display
SuccessResponses ==
    {Get(shown.val).response :
        shown \in {n \in {Normalize(b) : b \in ObjectBodies} :
                      n.ok /\ Has(Get(n.val).response)}}

\* The component showing a Success result, whose card holds the Copy button.
CopyInit ==
    /\ Init!1 /\ Init!3 /\ Init!4 /\ Init!5 /\ Init!6 /\ Init!7 /\ Init!8
    /\ Init!9 /\ Init!10 /\ Init!11 /\ Init!12 /\ Init!13 /\ Init!14
    /\ Init!15 /\ Init!16 /\ Init!17 /\ Init!18
    /\ response \in SuccessResponses

CopyNext ==
    \/ \E raises \in SUBSET FallbackCalls : CopyFallback(raises)
    \/ CopyWithApi
    \/ \E k \in 1..MaxPendingWrites, fulfilled \in BOOLEAN : WriteTextSettles(k, fulfilled)

CopySpec == CopyInit /\ [][CopyNext]_vars

-----------------------------------------------------------------------------
(* What the component renders, lines 176-234 *)

\* lines 178-183: {error && <div ...><p>Error</p><p>{error}</p></div>}
ErrorBannerShown == Has(error)

\* lines 185-233: {response && <div ...>AI Response ...</div>}
ResponseCardShown == Has(response)

-----------------------------------------------------------------------------
(* Vocabulary of the properties *)

\* a dispatch has run and its outcome has been written
Ended == pc = "idle" /\ calls # <<>>

Backoff == pc \in {"backoff429", "backoffCatch"}

\* attempt k was answered with status 429
RateLimited(k) == ~outcomes[k].rejected /\ outcomes[k].status = 429

\* attempt k was answered with a 2xx status
Answered2xx(k) ==
    ~outcomes[k].rejected /\ outcomes[k].status >= 200 /\ outcomes[k].status <= 299

\* attempt k was answered with a status that is neither 2xx nor 429
AnsweredOtherStatus(k) ==
    ~outcomes[k].rejected /\ ~Answered2xx(k) /\ outcomes[k].status # 429

FailureMessages ==
    {TransportMessage, SyntaxMessage, NullMessage, UndefinedMessage}
        \cup {"API request failed with status: " \o ToString(s) : s \in Statuses}
        \cup (ServerMessages \ {""})

SuccessShown == Has(response) /\ ~Has(error)

NoContentShown == ~Has(response) /\ error = Some(NoContentText)

FailureShown ==
    /\ ~Has(response)
    /\ \E m \in FailureMessages : error = Some("An error occurred: " \o m)

-----------------------------------------------------------------------------
(* Properties *)

\* C1: a response whose status is neither 2xx nor 429 ends the dispatch at
\* once in Failure: no fetch call and no backoff timer follows that attempt.
C1_OtherStatusIsTerminal ==
    \A k \in 1..Len(outcomes) :
        AnsweredOtherStatus(k) =>
            /\ Len(calls) = k
            /\ Len(waits) < k
            /\ pc \in {"errorJson", "idle"}
            /\ (pc = "idle" => FailureShown)

\* C2: a dispatch issues at most 3 fetch calls, and when every attempt is
\* answered with 429 it issues exactly 3 and ends in Failure.
C2_AtMostThreeCalls ==
    /\ Len(calls) <= 3
    /\ (Ended /\ \A k \in 1..Len(outcomes) : RateLimited(k))
           => Len(calls) = 3 /\ Len(outcomes) = 3 /\ FailureShown

C2_Witness ==
    /\ Ended
    /\ Len(outcomes) = 3
    /\ \A k \in 1..3 : RateLimited(k)
    /\ FailureShown

\* C3: 429 on the first k attempts (k = 1 or 2) is answered by a backoff and
\* a retry; when attempt k+1 is then answered 2xx, the dispatch has issued
\* exactly k+1 calls and its outcome is the one of the 2xx body.
C3_RateLimitRecovered ==
    \A k \in 1..2 :
        (Len(outcomes) >= k /\ \A j \in 1..k : RateLimited(j)) =>
            /\ Len(outcomes) = k =>
                  \/ pc = "backoff429" /\ Len(calls) = k /\ Len(waits) = k
                  \/ pc = "fetch" /\ Len(calls) = k + 1
            /\ (Len(outcomes) > k /\ Answered2xx(k + 1)) =>
                  /\ Len(calls) = k + 1
                  /\ Len(outcomes) = k + 1
                  /\ Has(resp) /\ Get(resp).status = outcomes[k + 1].status
                  /\ pc \in {"resultJson", "idle"}
                  /\ pc = "idle" =>
                        LET body == Get(resp).body
                            first == IF Has(body.candidates) /\ Get(body.candidates) # <<>>
                                     THEN Some(Head(Get(body.candidates))) ELSE None
                            text == IF Has(first) /\ Get(first).parts # <<>>
                                    THEN Head(Get(first).parts) ELSE None
                        IN  CASE body.json = "invalid" ->
                                   error = Some("An error occurred: " \o SyntaxMessage)
                                       /\ ~Has(response)
                              [] body.json = "null" ->
                                   error = Some("An error occurred: " \o NullMessage)
                                       /\ ~Has(response)
                              [] OTHER ->
                                   IF Has(text) /\ Get(text) # ""
                                   THEN SuccessShown /\ Get(response).text = Get(text)
                                   ELSE NoContentShown

C3_Witness ==
    /\ Ended
    /\ Len(outcomes) = 3 /\ Len(calls) = 3
    /\ RateLimited(1) /\ RateLimited(2) /\ Answered2xx(3)
    /\ SuccessShown

\* C4: exactly one backoff wait separates consecutive attempts, 1000 ms before
\* the 2nd attempt and 2000 ms before the 3rd, whatever caused the retry, and
\* no wait follows the final attempt.
C4_BackoffSchedule ==
    /\ Len(waits) <= 2
    /\ \A k \in 1..Len(waits) :
          /\ waits[k].after = k
          /\ waits[k].ms = IF k = 1 THEN 1000 ELSE 2000
    /\ calls # <<>> => Len(waits) = IF Backoff THEN Len(calls) ELSE Len(calls) - 1

C4_Witness ==
    /\ Ended
    /\ Len(calls) = 3
    /\ Len(waits) = 2
    /\ waits[1].cause = "429" /\ waits[1].ms = 1000
    /\ waits[2].cause = "error" /\ waits[2].ms = 2000
    /\ outcomes[2].rejected

\* C5: a transport error on attempt 1 or 2 is followed by a retry; a transport
\* error is surfaced as Failure only when it is the one of the 3rd attempt.
C5_TransportErrorRetried ==
    /\ \A k \in 1..Len(outcomes) :
          (outcomes[k].rejected /\ k < 3) =>
              \/ Len(outcomes) = k /\ pc = "backoffCatch" /\ ~Has(error)
              \/ Len(calls) > k
    /\ (Ended /\ outcomes[Len(outcomes)].rejected) =>
          /\ Len(outcomes) = 3
          /\ error = Some("An error occurred: " \o TransportMessage)
    /\ (Ended /\ error = Some("An error occurred: " \o TransportMessage)) =>
          Len(outcomes) = 3 /\ outcomes[3].rejected

C5_Witness ==
    /\ Ended
    /\ Len(outcomes) = 3
    /\ outcomes[1].rejected /\ outcomes[3].rejected
    /\ error = Some("An error occurred: " \o TransportMessage)

\* C6: submitting an empty or whitespace-only query performs no fetch call and
\* leaves isLoading, error and response as they were.
C6_BlankSubmitChangesNothing ==
    [][(lastEvent' = "submit" /\ Trim(query) = <<>>)
          => UNCHANGED <<isLoading, error, response, calls, pc>>]_vars

C6_Witness ==
    /\ lastEvent = "submit"
    /\ query # <<>> /\ Trim(query) = <<>>
    /\ Has(response)
    /\ pc = "idle" /\ ~isLoading

\* C7: the text of the request payload is the trimmed query, and every attempt
\* of the dispatch sends that payload.
C7_PayloadIsTrimmedQuery ==
    pc # "idle" => \A k \in 1..Len(calls) : calls[k] = Trim(query)

\* C8: a dispatch with a non-blank query ends in exactly one of Success,
\* NoContent and Failure, whatever the transport answers, with the loading
\* flag cleared.
C8_FailsClosed ==
    Ended =>
        /\ Cardinality({o \in {"success", "noContent", "failure"} :
                           \/ o = "success" /\ SuccessShown
                           \/ o = "noContent" /\ NoContentShown
                           \/ o = "failure" /\ FailureShown}) = 1
        /\ ~isLoading

C8_Witness ==
    /\ Ended
    /\ Has(resp) /\ Get(resp).body.json = "null" /\ Get(resp).status = 200
    /\ FailureShown

\* C9: a Failure caused by a non-2xx response carries the server's
\* error.message when the body has one and otherwise the generic message with
\* the status code, also when the body has no error field or is not JSON.
C9_NotOkFailureMessage ==
    (Ended /\ ~outcomes[Len(outcomes)].rejected /\ ~Answered2xx(Len(outcomes))) =>
        LET body == Get(resp).body
            status == Get(resp).status
        IN  error = Some("An error occurred: " \o
                    (IF /\ body.json = "object"
                        /\ Has(body.error)
                        /\ Has(Get(body.error).message)
                        /\ Get(Get(body.error).message) # ""
                     THEN Get(Get(body.error).message)
                     ELSE "API request failed with status: " \o ToString(status)))

\* C10: a 2xx response whose body is not valid JSON ends the dispatch in
\* Failure, and no fetch call follows the 2xx response.
C10_UnparsableSuccessBody ==
    \A k \in 1..Len(outcomes) :
        (Answered2xx(k) /\ Has(resp) /\ Get(resp).body.json = "invalid") =>
            /\ Len(outcomes) = k
            /\ Len(calls) = k
            /\ pc \in {"resultJson", "idle"}
            /\ pc = "idle" => FailureShown /\ ~isLoading

C10_Witness ==
    /\ Ended
    /\ Len(calls) = 1
    /\ Answered2xx(1)
    /\ Get(resp).body.json = "invalid"
    /\ error = Some("An error occurred: " \o SyntaxMessage)

\* the latest dispatch ended by normalising a 2xx payload that is a JSON object
Normalized ==
    /\ Ended
    /\ Answered2xx(Len(outcomes))
    /\ Get(resp).body.json = "object"

\* the candidates of the payload of the latest response, empty when absent
RawCandidates ==
    IF Has(Get(resp).body.candidates) THEN Get(Get(resp).body.candidates) ELSE <<>>

\* the first candidate of the payload has a non-empty text in its first part
RawHasText ==
    /\ RawCandidates # <<>>
    /\ RawCandidates[1].parts # <<>>
    /\ RawCandidates[1].parts[1] # <<>>
    /\ RawCandidates[1].parts[1][1] # ""

\* the grounding attributions of the first candidate, empty when absent
RawAttributions ==
    IF RawCandidates[1].grounding # <<>> THEN RawCandidates[1].grounding[1] ELSE <<>>

HasBoth(a) == a.uri # <<>> /\ a.uri[1] # "" /\ a.title # <<>> /\ a.title[1] # ""

\* C11: in a Success result, sources is the subsequence of the first
\* candidate's attributions that have both a uri and a title, in their order,
\* duplicates kept and uncapped; absent grounding gives the empty list.
C11_SourcesAreCompleteAttributions ==
    (Normalized /\ Has(response)) =>
        LET kept == SelectSeq(RawAttributions, HasBoth) IN
        /\ Len(Get(response).sources) = Len(kept)
        /\ \A k \in 1..Len(kept) :
              Get(response).sources[k] = [uri |-> kept[k].uri[1], title |-> kept[k].title[1]]
        /\ RawCandidates[1].grounding = <<>> => Get(response).sources = <<>>

C11_Witness ==
    /\ Normalized
    /\ Has(response)
    /\ Len(RawAttributions) = 7
    /\ Len(Get(response).sources) = 4
    /\ Get(response).sources[1] = Get(response).sources[3]
    /\ Get(response).sources[1].title = "B"
    /\ Get(response).sources[2].title = "A"

\* C12: only the first candidate counts: with zero candidates, or without a
\* text in the first part of the first candidate, the outcome is NoContent and
\* response stays null, whatever later candidates or parts hold; otherwise the
\* outcome is Success.
C12_OnlyFirstCandidate ==
    Normalized =>
        IF RawHasText
        THEN SuccessShown
        ELSE NoContentShown /\ ~Has(response)

C12_Witness ==
    /\ Normalized
    /\ Len(RawCandidates) = 2
    /\ RawCandidates[1].parts = <<Some("")>>
    /\ RawCandidates[2].parts = <<Some("Hello")>>
    /\ NoContentShown

C16_TextVerbatim ==
    (Normalized /\ Has(response)) =>
        /\ RawHasText
        /\ Get(response).text = RawCandidates[1].parts[1][1]

C16_Witness ==
    /\ Normalized
    /\ Has(response)
    /\ RawCandidates[1].parts[1][1] = " \n "
    /\ Get(response).text = " \n "

\* C14: a dispatch starts only when none is in flight: the step that starts
\* one is taken from a state in which the handler is not suspended, the
\* loading flag is clear and the outcome of an earlier dispatch is written.
C14_OneDispatchInFlight ==
    [][(lastEvent' = "submit" /\ pc' = "fetch")
          => /\ pc = "idle"
             /\ ~isLoading
             /\ calls # <<>> => (response # <<>> \/ error # <<>>)]_vars

C14_Witness ==
    /\ pc = "backoffCatch"
    /\ Len(calls) = 2
    /\ Trim(query) # <<>>
    /\ isLoading
    /\ ~ENABLED HandleGenerateContent

\* C17: a Failure after all 3 attempts shows the error of the 3rd attempt:
\* the transport error when the 3rd call rejected, otherwise the message made
\* from the status and body of the 3rd response.
C17_LastErrorSurfaced ==
    (Ended /\ Len(outcomes) = 3 /\ ~Answered2xx(3)) =>
        IF outcomes[3].rejected
        THEN error = Some("An error occurred: " \o TransportMessage)
        ELSE LET body == Get(resp).body IN
             /\ Get(resp).status = outcomes[3].status
             /\ error = Some("An error occurred: " \o
                   (CASE body.json = "invalid" -> SyntaxMessage
                      [] body.json = "null" -> NullMessage
                      [] OTHER ->
                           IF /\ body.error # <<>>
                              /\ body.error[1].message # <<>>
                              /\ body.error[1].message[1] # ""
                           THEN body.error[1].message[1]
                           ELSE "API request failed with status: "
                                   \o ToString(outcomes[3].status)))

C17_Witness ==
    /\ Ended
    /\ Len(outcomes) = 3
    /\ outcomes[1].rejected
    /\ outcomes[2].status = 403
    /\ outcomes[3].status = 500
    /\ Get(resp).body.error = Some([message |-> Some("permission denied")])
    /\ error = Some("An error occurred: permission denied")

\* C18: isLoading is true exactly in the states in which a dispatch is in
\* flight.
C18_LoadingIffInFlight ==
    isLoading <=> pc \in {"fetch", "backoff429", "backoffCatch", "errorJson", "resultJson"}

C18_Witness ==
    /\ pc = "backoff429"
    /\ Len(waits) = 2
    /\ isLoading

\* C20: response and error are never both non-null, and both are null while a
\* dispatch is in flight.
C20_OneOutcomeShown ==
    /\ ~(response # <<>> /\ error # <<>>)
    /\ pc # "idle" => response = <<>> /\ error = <<>>

C20_Witness ==
    /\ pc = "idle"
    /\ lastEvent = "resultJsonSettles"
    /\ response # <<>>
    /\ error = <<>>
    /\ Len(calls) = 3
    /\ outcomes[1].status = 500

\* C19: when every fetch call, timer and body read completes, every started
\* dispatch finishes and isLoading returns to false, so that the controls are
\* enabled again.
C19_DispatchFinishes ==
    (pc # "idle" \/ isLoading) ~> (pc = "idle" /\ ~isLoading /\ ~ControlsDisabled)

C19_Witness ==
    /\ Ended
    /\ ~isLoading
    /\ Len(waits) = 2
    /\ NoContentShown
    /\ ENABLED HandleGenerateContent

\* C15: the fallback path of copyToClipboard never leaves its temporary
\* textarea attached to the document and never throws to its caller, whichever
\* of its platform calls raises.
C15_FallbackCleansUp ==
    attached = 0 /\ ~copyThrew

====
